---- MODULE Spec2Model ----
(***************************************************************************)
(* Model of api/update/index.js: the update-check endpoint.                *)
(*                                                                         *)
(* JavaScript values are tagged records: a string is                       *)
(* [js |-> "string", chars |-> <<...>>] whose chars is a sequence of       *)
(* units, a unit being either the dash "-" or a maximal dash-free run of   *)
(* characters (so two dash-free units are never adjacent); null and        *)
(* undefined are [js |-> "null"] and [js |-> "undefined"].                 *)
(***************************************************************************)
EXTENDS Naturals, Sequences, FiniteSets

VARIABLES
    rawPlatform,   \* validateInput: the platform argument
    rawQuality,    \* validateInput: the quality argument
    resolved,      \* validateInput: what the call returned, once it has
    req,           \* handler: the inbound request of each invocation
    pc,            \* handler: where each invocation stands
    res,           \* handler: the response object of each invocation
    input,         \* handler: const input (line 130)
    fetched,       \* getLatestJSON: how the outbound fetch settled
    latest,        \* handler: const latest (line 138)
    calls          \* per invocation: validateInput calls, fetches started

vars == <<rawPlatform, rawQuality, resolved, req, pc, res, input, fetched, latest, calls>>

resolverVars == <<rawPlatform, rawQuality, resolved>>
handlerVars == <<req, pc, res, input, fetched, latest, calls>>

----------------------------------------------------------------------------
(* Bounds *)

\* longest platform string, in units ("win32-x64-user" has five)
MaxLen == 5
\* number of handler invocations in flight in the concurrent specification
NumReq == 2

----------------------------------------------------------------------------
(* JavaScript values *)

Dash == "-"
Str(units) == [js |-> "string", chars |-> units]
Word(w) == Str(<<w>>)
Empty == Str(<<>>)
Null == [js |-> "null"]
Undefined == [js |-> "undefined"]
False == [js |-> "boolean", value |-> FALSE]

\* !v for the values that occur: null, undefined, false and "" are falsy
Not(v) == v \in {Null, Undefined, False, Empty}

\* typeof v
TypeOf(v) == IF v = Null THEN "object" ELSE v.js

----------------------------------------------------------------------------
(* Constants, lines 17-35 *)

INSIDER == Word("insider")
STABLE == Word("stable")

DARWIN == Word("darwin")
WINDOWS == Word("win32")
LINUX == Word("linux")

ARM64 == Word("arm64")
IA32 == Word("ia32")
X64 == Word("x64")

SYSTEM == Word("system")
ARCHIVE == Word("archive")
USER == Word("user")

QUALITIES == {INSIDER, STABLE}
OS == {DARWIN, LINUX, WINDOWS}
TYPES == {ARCHIVE, USER, SYSTEM}
ARCH == {ARM64, IA32, X64}

----------------------------------------------------------------------------
(* String.prototype.split('-') and the destructuring of line 75 *)

RECURSIVE SplitFrom(_, _, _)
SplitFrom(units, cur, acc) ==
    IF units = <<>> THEN Append(acc, Str(cur))
    ELSE IF Head(units) = Dash
         THEN SplitFrom(Tail(units), <<>>, Append(acc, Str(cur)))
         ELSE SplitFrom(Tail(units), Append(cur, Head(units)), acc)

\* mutant: platform.split('-', 2), which keeps the first two parts only
SplitLimitTwo(s) ==
    LET parts == SplitFrom(s.chars, <<>>, <<>>)
    IN IF Len(parts) <= 2 THEN parts ELSE <<parts[1], parts[2]>>

Split(s) == SplitFrom(s.chars, <<>>, <<>>)

\* let [a, b, c] = array: a missing element is undefined
At(array, i) == IF i <= Len(array) THEN array[i] ELSE Undefined

----------------------------------------------------------------------------
(* validateInput, lines 71-102 *)

\* mutant: the win32 defaults with x64 as the default architecture
WindowsDefaultsX64(arch, type) ==
    IF Not(type)
    THEN IF Not(arch) THEN <<X64, SYSTEM>>
         ELSE IF arch \in TYPES THEN <<X64, arch>>
         ELSE <<arch, SYSTEM>>
    ELSE <<arch, type>>

\* lines 78-94: the win32 branch; the result is <<arch, type>>
WindowsDefaults(arch, type) ==
    IF Not(type)
    THEN IF Not(arch) THEN <<IA32, SYSTEM>>
         ELSE IF arch \in TYPES THEN <<IA32, arch>>
         ELSE <<arch, SYSTEM>>
    ELSE <<arch, type>>

\* line 96: the darwin branch
DarwinDefaults(arch, type) ==
    IF Not(arch) THEN <<X64, type>> ELSE <<arch, type>>

validateInput(platform, quality) ==
    IF Not(quality) \/ quality \notin QUALITIES THEN False
    ELSE IF Not(platform) \/ TypeOf(platform) # "string" THEN False
    ELSE
      LET parts == Split(platform)
          os == At(parts, 1)
          arch0 == At(parts, 2)
          type0 == At(parts, 3)
      IN IF os \notin OS THEN False
         ELSE
           LET at == IF os = WINDOWS THEN WindowsDefaults(arch0, type0)
                     ELSE IF os = DARWIN THEN DarwinDefaults(arch0, type0)
                     ELSE <<arch0, type0>>
               arch == at[1]
               type == at[2]
           IN IF os = WINDOWS /\ type \notin TYPES THEN False
              ELSE IF arch \notin ARCH THEN False
              ELSE [quality |-> quality, os |-> os, arch |-> arch, type |-> type]

----------------------------------------------------------------------------
(* Inputs of validateInput *)

\* the dash-free runs a platform string is made of; "bogus" stands for
\* a run that is in no enumeration
Runs == {"darwin", "linux", "win32", "arm64", "ia32", "x64",
         "system", "archive", "user", "bogus"}

Units == Runs \cup {Dash}

\* the unit sequences of length n: a dash-free run is maximal, so no two
\* of them are adjacent
RECURSIVE UnitSeqs(_)
UnitSeqs(n) ==
    IF n = 0 THEN {<<>>}
    ELSE {Append(p[1], p[2]) :
            p \in {q \in UnitSeqs(n - 1) \X Units :
                     \/ q[1] = <<>>
                     \/ q[2] = Dash
                     \/ q[1][Len(q[1])] = Dash}}

PlatformStrings == {Str(s) : s \in UNION {UnitSeqs(n) : n \in 0..MaxLen}}

\* what a caller can pass as platform: a string, null, or a non-string
PlatformInputs == PlatformStrings \cup {Null, [js |-> "number", value |-> 1]}

QualityInputs == {Null, Empty, INSIDER, STABLE, Word("beta")}

NotCalled == [js |-> "pending"]

----------------------------------------------------------------------------
(* The resolver on its own: one call of validateInput on any input *)

InitResolve ==
    /\ rawPlatform \in PlatformInputs
    /\ rawQuality \in QualityInputs
    /\ resolved = NotCalled
    /\ req = <<>> /\ pc = <<>> /\ res = <<>> /\ input = <<>>
    /\ fetched = <<>> /\ latest = <<>> /\ calls = <<>>

Resolve ==
    /\ resolved = NotCalled
    /\ resolved' = validateInput(rawPlatform, rawQuality)
    /\ UNCHANGED <<rawPlatform, rawQuality, handlerVars>>

NextResolve == Resolve

SpecResolve == InitResolve /\ [][NextResolve]_vars

----------------------------------------------------------------------------
(* Claims about validateInput, checked under SpecResolve *)

Called == resolved # NotCalled

Descriptor(quality, os, arch, type) ==
    [quality |-> quality, os |-> os, arch |-> arch, type |-> type]

\* the units of the platform argument when it is a string
PlatformUnits == IF rawPlatform.js = "string" THEN rawPlatform.chars ELSE <<"?">>

OsRuns == {"darwin", "linux", "win32"}
ArchRuns == {"arm64", "ia32", "x64"}
TypeRuns == {"system", "archive", "user"}

\* C2: validateInput either returns false or a descriptor whose quality, os
\* and arch are in their enumerations and whose type is absent or in
\* {system, archive, user}, also for darwin and linux strings that carry a
\* third token.  An empty third token ("darwin-x64-") is counted as absent.
C2_NoPartialDescriptor ==
    (Called /\ resolved # False) =>
        /\ resolved.quality \in QUALITIES
        /\ resolved.os \in OS
        /\ resolved.arch \in ARCH
        /\ resolved.type \in TYPES \cup {Undefined, Empty}

\* C3: with a valid quality and no third token the per-OS defaulting table
\* applies: "win32" gives ia32/system, "win32-<t>" gives ia32/t,
\* "win32-<a>" gives a/system or fails when a is no architecture, "darwin"
\* gives x64 with type undefined, "linux" without an arch token fails, and
\* a first token outside {darwin, linux, win32} fails.
C3_DefaultingTable ==
    (Called /\ rawQuality \in QUALITIES /\ rawPlatform.js = "string") =>
        LET u == PlatformUnits IN
        /\ u = <<"win32">> =>
              resolved = Descriptor(rawQuality, WINDOWS, IA32, SYSTEM)
        /\ (Len(u) = 3 /\ u[1] = "win32" /\ u[2] = Dash /\ u[3] \in TypeRuns) =>
              resolved = Descriptor(rawQuality, WINDOWS, IA32, Word(u[3]))
        /\ (Len(u) = 3 /\ u[1] = "win32" /\ u[2] = Dash /\ u[3] \in ArchRuns) =>
              resolved = Descriptor(rawQuality, WINDOWS, Word(u[3]), SYSTEM)
        /\ (Len(u) = 3 /\ u[1] = "win32" /\ u[2] = Dash
              /\ u[3] \notin TypeRuns \cup ArchRuns \cup {Dash}) =>
              resolved = False
        /\ u = <<"darwin">> =>
              resolved = Descriptor(rawQuality, DARWIN, X64, Undefined)
        /\ (u = <<"linux">> \/ u = <<"linux", Dash>>) => resolved = False
        /\ (u = <<>> \/ (u # <<>> /\ u[1] \notin OsRuns)) => resolved = False

C3_Witness ==
    /\ rawPlatform = Str(<<"win32", Dash, "user">>)
    /\ resolved = Descriptor(STABLE, WINDOWS, IA32, USER)

\* C4: for every os, arch, type and quality of the enumerations,
\* validateInput("<os>-<arch>-<type>", quality) returns the descriptor
\* with exactly those four values.
C4_FullStringRoundTrip ==
    \A o \in OsRuns, a \in ArchRuns, ty \in TypeRuns :
        (Called /\ rawQuality \in QUALITIES
                /\ rawPlatform = Str(<<o, Dash, a, Dash, ty>>)) =>
            resolved = Descriptor(rawQuality, Word(o), Word(a), Word(ty))

C4_Witness ==
    /\ rawPlatform = Str(<<"linux", Dash, "arm64", Dash, "archive">>)
    /\ resolved = Descriptor(INSIDER, LINUX, ARM64, ARCHIVE)

----------------------------------------------------------------------------
(* The response object: res.statusCode, res.setHeader, res.end *)

\* a fresh ServerResponse: statusCode 200, no header, nothing written
FreshResponse ==
    [statusCode |-> 200, headers |-> {}, body |-> Undefined, ended |-> 0]

\* res.setHeader(name, value): replaces an earlier value of the header
setHeader(r, name, value) ==
    [r EXCEPT !.headers = {h \in @ : h[1] # name} \cup {<<name, value>>}]

\* res.end(chunk): the body is what the first call wrote
end(r, chunk) ==
    [r EXCEPT !.body = IF r.ended = 0 THEN chunk ELSE @, !.ended = @ + 1]

\* JSON.stringify and JSON.parse: a JSON text is [text |-> "json", value |-> v];
\* any other text does not parse
JSONStringify(value) == [text |-> "json", value |-> value]
Garbage == [text |-> "garbage"]
ParseThrows(text) == text.text # "json"
JSONParse(text) == text.value

\* lines 104-107
sendNoContent(r) == end([r EXCEPT !.statusCode = 204], Undefined)

\* lines 109-113
sendJson(r, statusCode, payload) ==
    end(setHeader([r EXCEPT !.statusCode = statusCode],
                  "Content-Type", "application/json; charset=utf-8"),
        JSONStringify(payload))

ErrorObject(message) == [js |-> "object", class |-> "Object", error |-> message]

----------------------------------------------------------------------------
(* buildVersionUrl, lines 41-45: the path below VERSION_BASE_URL *)

buildVersionUrl(in) ==
    <<in.quality, in.os, in.arch>>
        \o (IF Not(in.type) THEN <<>> ELSE <<in.type>>)
        \o <<Word("latest.json")>>

----------------------------------------------------------------------------
(* Requests and what the remote source can answer *)

GET == Word("GET")
POST == Word("POST")

\* new URL(req.url, `https://${req.headers.host}`) throws on a host that
\* is no valid authority
GoodHost == Word("updates.example")
BadHost == Word("bad host")
URLThrows(request) == request.host # GoodHost

Commit1 == Word("51b0b28")
Commit2 == Word("cb4109f")

\* property access on a parsed JSON value
Get(value, field) ==
    IF field \in DOMAIN value THEN value[field] ELSE Undefined

JsonObjects ==
    [js : {"object"}, class : {"Object"},
     version : {Commit1, Commit2, Null}, name : {Word("1.33.1"), Word("1.34.0")}]
      \cup [js : {"object"}, class : {"Object"}, name : {Word("1.33.1")}]

JsonValues ==
    JsonObjects \cup
    { Null, False,
      [js |-> "number", value |-> 7],
      Word("up to date"),
      [js |-> "object", class |-> "Array", items |-> <<>>] }

Bodies == {Garbage} \cup {JSONStringify(v) : v \in JsonValues}

Rejected == [kind |-> "rejected"]
Response(status, body) ==
    [kind |-> "response", ok |-> status \in 200..299, status |-> status, body |-> body]

NotOkStatuses == {404, 500}

Request(method, host, platform, quality, commit) ==
    [method |-> method, host |-> host, platform |-> platform,
     quality |-> quality, commit |-> commit]

\* searchParams.get gives null for a parameter that is not in the URL
Requests ==
    [method : {Undefined, GET, POST, Word("DELETE")},
     host : {GoodHost, BadHost},
     platform : {Null, Word("darwin"), Word("linux"),
                 Str(<<"win32", Dash, "x64", Dash, "user">>),
                 Str(<<"darwin", Dash, "x64", Dash, "bogus">>)},
     quality : {Null, STABLE, Word("beta")},
     commit : {Null, Commit1, Commit2}]

\* the requests of the concurrent specification
ConcRequests ==
    { Request(POST, GoodHost, Word("darwin"), STABLE, Commit1),
      Request(GET, BadHost, Word("darwin"), STABLE, Commit1),
      Request(GET, GoodHost, Word("linux"), STABLE, Commit1),
      Request(GET, GoodHost, Word("darwin"), STABLE, Commit1),
      Request(GET, GoodHost, Str(<<"win32", Dash, "x64", Dash, "user">>), INSIDER, Commit2) }

NoCalls == [validateInput |-> 0, fetch |-> <<>>]

NotSettled == [kind |-> "pending"]

----------------------------------------------------------------------------
(* getLatestJSON, lines 47-68, after the fetch has settled *)

\* line 60: response.json().catch(() => null)
dataOf(body) == IF ParseThrows(body) THEN Null ELSE JSONParse(body)

\* lines 61-63
checkedData(data) ==
    IF Not(data) \/ TypeOf(data) # "object" THEN Null ELSE data

\* what getLatestJSON returns for each way the fetch can settle
getLatestJSON(outcome) ==
    IF outcome.kind = "rejected" THEN Null          \* lines 64-67
    ELSE IF ~outcome.ok THEN Null                   \* lines 55-58
    ELSE checkedData(dataOf(outcome.body))

----------------------------------------------------------------------------
(* handler, lines 115-156 *)

\* mutant: only POST is turned away
methodAllowedExceptPost(request) == request.method # POST

\* line 118, negated
methodAllowed(request) == Not(request.method) \/ request.method = GET

\* mutant: only a missing record counts as up to date
upToDateWhenMissing(commit, lat) == Not(lat)

\* line 144
upToDate(commit, lat) == Not(lat) \/ commit = Get(lat, "version")

\* mutant: the cache header is set on the 200 path only
respondCacheOn200(response, commit, lat) ==
    IF upToDate(commit, lat) THEN sendNoContent(response)
    ELSE sendJson(setHeader(response, "Cache-Control", "s-maxage=14400"), 200, lat)

\* mutant: a module-level memo of "update already announced" shared by
\* the invocations
respondAnnouncedOnce(response, commit, lat) ==
    LET cached == setHeader(response, "Cache-Control", "s-maxage=14400")
    IN IF upToDate(commit, lat)
          \/ \E o \in DOMAIN pc : pc[o] = "done" /\ res[o].statusCode = 200
       THEN sendNoContent(cached)
       ELSE sendJson(cached, 200, lat)

\* lines 141-149
respond(response, commit, lat) ==
    LET cached == setHeader(response, "Cache-Control", "s-maxage=14400")
    IN IF upToDate(commit, lat) THEN sendNoContent(cached)
       ELSE sendJson(cached, 200, lat)

\* lines 118-121
methodNotAllowed(response) ==
    sendJson(setHeader(response, "Allow", "GET"), 405,
             ErrorObject("Method Not Allowed"))

\* lines 150-155
internalError(response) ==
    sendJson(response, 500, ErrorObject("Internal Server Error"))

\* lines 133-136
notFound(response) == end([response EXCEPT !.statusCode = 404], Undefined)

\* the handler run from start to end, given how its fetch settles
handler(request, outcome) ==
    IF ~methodAllowed(request) THEN methodNotAllowed(FreshResponse)
    ELSE IF URLThrows(request) THEN internalError(FreshResponse)
    ELSE IF validateInput(request.platform, request.quality) = False
         THEN notFound(FreshResponse)
    ELSE respond(FreshResponse, request.commit, getLatestJSON(outcome))

Invocations == DOMAIN req

\* lines 118-121: a method other than GET
MethodNotAllowed(r) ==
    /\ pc[r] = "start"
    /\ ~methodAllowed(req[r])
    /\ res' = [res EXCEPT ![r] = methodNotAllowed(@)]
    /\ pc' = [pc EXCEPT ![r] = "done"]
    /\ UNCHANGED <<req, input, fetched, latest, calls, resolverVars>>

\* line 123 throws, lines 150-155 answer
UrlFault(r) ==
    /\ pc[r] = "start"
    /\ methodAllowed(req[r])
    /\ URLThrows(req[r])
    /\ res' = [res EXCEPT ![r] = internalError(@)]
    /\ pc' = [pc EXCEPT ![r] = "done"]
    /\ UNCHANGED <<req, input, fetched, latest, calls, resolverVars>>

\* mutant: lines 133-136 without the return
InvalidInputFallsThrough(r) ==
    /\ pc[r] = "start"
    /\ methodAllowed(req[r])
    /\ ~URLThrows(req[r])
    /\ validateInput(req[r].platform, req[r].quality) = False
    /\ input' = [input EXCEPT ![r] = False]
    /\ calls' = [calls EXCEPT ![r].validateInput = @ + 1,
                              ![r].fetch = Append(@, <<>>)]
    /\ res' = [res EXCEPT ![r] = notFound(@)]
    /\ pc' = [pc EXCEPT ![r] = "awaitFetch"]
    /\ UNCHANGED <<req, fetched, latest, resolverVars>>

\* lines 123-136: validateInput returns false
InvalidInput(r) ==
    /\ pc[r] = "start"
    /\ methodAllowed(req[r])
    /\ ~URLThrows(req[r])
    /\ validateInput(req[r].platform, req[r].quality) = False
    /\ input' = [input EXCEPT ![r] = False]
    /\ calls' = [calls EXCEPT ![r].validateInput = @ + 1]
    /\ res' = [res EXCEPT ![r] = notFound(@)]
    /\ pc' = [pc EXCEPT ![r] = "done"]
    /\ UNCHANGED <<req, fetched, latest, resolverVars>>

\* mutant: the outbound fetches go through one shared slot, so a fetch
\* starts only when no other invocation has one in flight
StartFetchOneAtATime(r) ==
    /\ pc[r] = "start"
    /\ methodAllowed(req[r])
    /\ ~URLThrows(req[r])
    /\ validateInput(req[r].platform, req[r].quality) # False
    /\ \A o \in DOMAIN pc : pc[o] \notin {"awaitFetch", "awaitJson"}
    /\ input' = [input EXCEPT ![r] = validateInput(req[r].platform, req[r].quality)]
    /\ calls' = [calls EXCEPT ![r].validateInput = @ + 1,
                              ![r].fetch = Append(@, buildVersionUrl(input'[r]))]
    /\ pc' = [pc EXCEPT ![r] = "awaitFetch"]
    /\ UNCHANGED <<req, res, fetched, latest, resolverVars>>

\* lines 123-138 and 48-53: the descriptor is valid, the fetch is issued
\* and the handler is suspended on it
StartFetch(r) ==
    /\ pc[r] = "start"
    /\ methodAllowed(req[r])
    /\ ~URLThrows(req[r])
    /\ validateInput(req[r].platform, req[r].quality) # False
    /\ input' = [input EXCEPT ![r] = validateInput(req[r].platform, req[r].quality)]
    /\ calls' = [calls EXCEPT ![r].validateInput = @ + 1,
                              ![r].fetch = Append(@, buildVersionUrl(input'[r]))]
    /\ pc' = [pc EXCEPT ![r] = "awaitFetch"]
    /\ UNCHANGED <<req, res, fetched, latest, resolverVars>>

\* the fetch settled as `outcome` and getLatestJSON returned: lines 138-149
Resume(r, outcome) ==
    /\ fetched' = [fetched EXCEPT ![r] = outcome]
    /\ latest' = [latest EXCEPT ![r] = getLatestJSON(outcome)]
    /\ res' = [res EXCEPT ![r] = respond(@, req[r].commit, latest'[r])]
    /\ pc' = [pc EXCEPT ![r] = "done"]
    /\ UNCHANGED <<req, input, calls, resolverVars>>

\* the fetch rejects (network fault): lines 64-67
FetchRejects(r) ==
    /\ pc[r] = "awaitFetch"
    /\ Resume(r, Rejected)

\* the fetch resolves with a non-success status: lines 55-58
FetchNotOk(r) ==
    /\ pc[r] = "awaitFetch"
    /\ \E status \in NotOkStatuses : Resume(r, Response(status, Garbage))

\* the fetch resolves with a success status; the handler is suspended again
\* on response.json(), line 60
FetchOk(r) ==
    /\ pc[r] = "awaitFetch"
    /\ \E body \in Bodies : fetched' = [fetched EXCEPT ![r] = Response(200, body)]
    /\ pc' = [pc EXCEPT ![r] = "awaitJson"]
    /\ UNCHANGED <<req, res, input, latest, calls, resolverVars>>

\* response.json() settles: lines 60-63, then 138-149
JsonSettles(r) ==
    /\ pc[r] = "awaitJson"
    /\ Resume(r, fetched[r])

\* any step of invocation r
Step(r) ==
    \/ MethodNotAllowed(r)
    \/ UrlFault(r)
    \/ InvalidInput(r)
    \/ StartFetch(r)
    \/ FetchRejects(r)
    \/ FetchNotOk(r)
    \/ FetchOk(r)
    \/ JsonSettles(r)

Next ==
    \/ \E r \in Invocations : MethodNotAllowed(r)
    \/ \E r \in Invocations : UrlFault(r)
    \/ \E r \in Invocations : InvalidInput(r)
    \/ \E r \in Invocations : StartFetch(r)
    \/ \E r \in Invocations : FetchRejects(r)
    \/ \E r \in Invocations : FetchNotOk(r)
    \/ \E r \in Invocations : FetchOk(r)
    \/ \E r \in Invocations : JsonSettles(r)

InitHandler(requests, n) ==
    /\ req \in [1..n -> requests]
    /\ pc = [r \in 1..n |-> "start"]
    /\ res = [r \in 1..n |-> FreshResponse]
    /\ input = [r \in 1..n |-> Undefined]
    /\ fetched = [r \in 1..n |-> NotSettled]
    /\ latest = [r \in 1..n |-> Undefined]
    /\ calls = [r \in 1..n |-> NoCalls]
    /\ rawPlatform = Null /\ rawQuality = Null /\ resolved = NotCalled

\* one invocation, any request
Init == InitHandler(Requests, 1)

Spec == Init /\ [][Next]_vars

\* NumReq invocations in flight at once
InitConc == InitHandler(ConcRequests, NumReq)

SpecConc == InitConc /\ [][Next]_vars

----------------------------------------------------------------------------
(* Claims about the handler, checked under Spec *)

Done(r) == pc[r] = "done"
CacheControl == <<"Cache-Control", "s-maxage=14400">>
HasHeader(r, name) == \E h \in res[r].headers : h[1] = name

\* the descriptor resolved and the fetch was issued
Fetching(r) == input[r] \notin {Undefined, False}

\* a JSON object in the strict sense: not null, not an array
IsJsonObject(value) == value.js = "object" /\ value.class = "Object"

\* the ways the remote fetch fails: it rejects, answers a non-success
\* status, or its body is no JSON object
FetchFailed(outcome) ==
    \/ outcome.kind = "rejected"
    \/ /\ outcome.kind = "response"
       /\ \/ ~outcome.ok
          \/ ParseThrows(outcome.body)
          \/ ~IsJsonObject(JSONParse(outcome.body))

\* C1 as stated: every response with a status other than 405 carries
\* Cache-Control: s-maxage=14400.
C1_CacheControlOnAllNon405 ==
    \A r \in Invocations :
        (Done(r) /\ res[r].statusCode # 405) => CacheControl \in res[r].headers

\* C1 as amended: every 204 and every 200 response carries
\* Cache-Control: s-maxage=14400, and the 404 response and a 500 raised
\* before the fetch has returned carry no Cache-Control header.
C1_CacheControlOn204And200 ==
    \A r \in Invocations :
        /\ (Done(r) /\ res[r].statusCode \in {200, 204}) =>
              CacheControl \in res[r].headers
        /\ (Done(r) /\ res[r].statusCode = 404) => ~HasHeader(r, "Cache-Control")
        /\ (Done(r) /\ res[r].statusCode = 500 /\ fetched[r] = NotSettled) =>
              ~HasHeader(r, "Cache-Control")

C1_Witness ==
    \E r \in Invocations :
        /\ Done(r) /\ res[r].statusCode = 204
        /\ fetched[r] = Rejected
        /\ CacheControl \in res[r].headers

\* C5: for a request whose platform and quality resolve, every failure of
\* the remote fetch (it rejects, answers a non-success status, or its body
\* does not parse as a JSON object) makes getLatestJSON return null and
\* the response 204 with an empty body.
C5_FetchFailureIs204 ==
    \A r \in Invocations :
        (Done(r) /\ Fetching(r) /\ FetchFailed(fetched[r])) =>
            /\ latest[r] = Null
            /\ res[r].statusCode = 204
            /\ res[r].body = Undefined

\* C6: when the record's version equals the client's commit the response
\* is 204 with an empty body whatever else the record holds; a 200 is
\* emitted only for a fetched record whose version differs from the commit,
\* and its body is that record.
C6_SameVersionIs204 ==
    \A r \in Invocations :
        /\ (Done(r) /\ Fetching(r) /\ ~Not(latest[r])
                    /\ Get(latest[r], "version") = req[r].commit) =>
              (res[r].statusCode = 204 /\ res[r].body = Undefined)
        /\ (Done(r) /\ res[r].statusCode = 200) =>
              /\ fetched[r].kind = "response" /\ fetched[r].ok
              /\ ~ParseThrows(fetched[r].body)
              /\ latest[r] = JSONParse(fetched[r].body)
              /\ Get(latest[r], "version") # req[r].commit
              /\ res[r].body = JSONStringify(latest[r])

C6_Witness ==
    \E r \in Invocations :
        /\ Done(r) /\ res[r].statusCode = 204
        /\ IsJsonObject(latest[r])
        /\ latest[r].version = Commit1 /\ req[r].commit = Commit1

\* C7: a request whose method is present and not GET is answered 405 with
\* Allow: GET and the body {"error": "Method Not Allowed"}, without
\* validateInput being evaluated or a fetch being started, whatever its
\* platform, quality and commit are.
C7_MethodRejectedFirst ==
    \A r \in Invocations :
        (Done(r) /\ ~Not(req[r].method) /\ req[r].method # GET) =>
            /\ res[r] = [statusCode |-> 405,
                         headers |-> {<<"Allow", "GET">>,
                                      <<"Content-Type", "application/json; charset=utf-8">>},
                         body |-> JSONStringify(ErrorObject("Method Not Allowed")),
                         ended |-> 1]
            /\ calls[r] = NoCalls
            /\ input[r] = Undefined /\ fetched[r] = NotSettled

C7_Witness ==
    \E r \in Invocations :
        /\ Done(r) /\ req[r].method = Word("DELETE")
        /\ req[r].host = BadHost /\ req[r].quality = Null
        /\ res[r].statusCode = 405

\* C8: an invocation ends its response exactly once: while it runs the
\* response has not been ended, when it has returned the response has been
\* ended once, with a status among 405, 404, 204, 200 and 500.
C8_ExactlyOneResponse ==
    \A r \in Invocations :
        /\ res[r].ended <= 1
        /\ ~Done(r) => res[r].ended = 0
        /\ Done(r) => /\ res[r].ended = 1
                      /\ res[r].statusCode \in {405, 404, 204, 200, 500}

C8_Witness ==
    \E r \in Invocations :
        Done(r) /\ res[r].statusCode = 500 /\ res[r].ended = 1

----------------------------------------------------------------------------
(* Claims about several invocations, checked under SpecConc *)

\* C9: two invocations given the same request, whose fetches settle the
\* same way, emit the same response: status, headers and body.
C9_Idempotent ==
    \A a \in Invocations, b \in Invocations :
        (Done(a) /\ Done(b) /\ req[a] = req[b] /\ fetched[a] = fetched[b]) =>
            res[a] = res[b]

C9_Witness ==
    \E a \in Invocations, b \in Invocations :
        /\ a # b /\ Done(a) /\ Done(b)
        /\ req[a] = req[b] /\ fetched[a] = fetched[b]
        /\ res[a].statusCode = 200 /\ res[b].statusCode = 200

\* C10: an invocation whose descriptor resolved emits nothing while its own
\* fetch is pending; an invocation that has not returned can always take
\* its next step, whatever the others are waiting for; and the response of
\* each equals the one the handler gives alone for the same fetch outcome.
C10_IndependentInvocations ==
    \A r \in Invocations :
        /\ pc[r] \in {"awaitFetch", "awaitJson"} => res[r] = FreshResponse
        /\ ~Done(r) => ENABLED Step(r)
        /\ Done(r) => res[r] = handler(req[r], fetched[r])

C10_Witness ==
    \E a \in Invocations, b \in Invocations :
        /\ pc[a] = "awaitFetch"
        /\ Done(b) /\ Fetching(b) /\ res[b].statusCode = 200

====
